---- MODULE Spec2Model ----
(***************************************************************************)
(* Model of pkg/k8s/k8s.go (healthctl): the health probes, the remote      *)
(* executor, the Redis status resolver and the resource usage aggregator.  *)
(*                                                                         *)
(* K8sClient holds no mutable state of its own: every method reads the     *)
(* cluster through the client handle and returns a fresh value.  The state *)
(* of the model is therefore one invocation: which method was called, what *)
(* the cluster API answered, what the method returned and whether the host *)
(* process survived the call (log.Fatalf and panic end it).                *)
(***************************************************************************)
EXTENDS Integers, Sequences, FiniteSets, TLC

VARIABLES
    op,       \* the method invoked on the client, "none" before any call
    proc,     \* "running", "exited" (log.Fatalf -> os.Exit(1)) or "panicked"
    api,      \* what the cluster API / exec channel answered during the call
    ret,      \* the value the method returned, NoReturn when it did not return
    fetches,  \* number of list/get requests the call sent to the control plane
    execs     \* number of exec channels the call opened

vars == <<op, proc, api, ret, fetches, execs>>

(***************************************************************************)
(* Bounds of the model.                                                    *)
(***************************************************************************)
MaxNodes == 2
MaxPods == 3
MaxEvents == 3
MaxRedisPods == 2
MaxRedisNodes == 3
MaxUsagePods == 2
MaxMetrics == 2
MaxAlerts == 2

(***************************************************************************)
(* Helpers.                                                                *)
(***************************************************************************)
SeqsUpTo(S, n) == UNION {[1..k -> S] : k \in 0..n}

Range(s) == {s[i] : i \in DOMAIN s}

\* injective sequences over S: every element of S at most once
InjectiveSeqs(S) ==
    {s \in SeqsUpTo(S, Cardinality(S)) :
        \A i, j \in DOMAIN s : i # j => s[i] # s[j]}

\* Go's nil error
NoErr == "nil"

\* errors a list/get request can fail with
FetchErrors == {"connection refused"}

NoReturn == [returned |-> FALSE]

(***************************************************************************)
(* TestStatus                                                              *)
(***************************************************************************)
TestStatus(status, info, err) == [Status |-> status, Info |-> info, Error |-> err]

(***************************************************************************)
(* CheckNodes                                                              *)
(***************************************************************************)
NodeNames == <<"node-a", "node-b", "node-c", "node-d">>

ConditionTypes == {"Ready", "MemoryPressure"}

ConditionStatuses == {"True", "False", "Unknown"}

\* the condition lists a node can carry: each type at most once, any order
NodeConditions ==
    UNION { { [i \in DOMAIN ts |-> [Type |-> ts[i], Status |-> st[i]]]
              : st \in [DOMAIN ts -> ConditionStatuses] }
            : ts \in InjectiveSeqs(ConditionTypes) }

\* node listings: the i-th node is named NodeNames[i]
NodeListings ==
    UNION { { [i \in 1..k |-> [Name |-> NodeNames[i], Conditions |-> cs[i]]]
              : cs \in [1..k -> NodeConditions] }
            : k \in 0..MaxNodes }

\* inner loop of CheckNodes: does some condition make the node fail
NodeNotReady_StatusFalseOnly(node) ==
    \E i \in DOMAIN node.Conditions :
        /\ node.Conditions[i].Type = "Ready"
        /\ node.Conditions[i].Status = "False"

NodeNotReady(node) ==
    \E i \in DOMAIN node.Conditions :
        /\ node.Conditions[i].Type = "Ready"
        /\ node.Conditions[i].Status # "True"

\* outer loop of CheckNodes from index i: the first failing node returns
RECURSIVE CheckNodesFrom(_, _)
CheckNodesFrom(items, i) ==
    IF i > Len(items)
    THEN TestStatus(TRUE, "All nodes are ready", NoErr)
    ELSE IF NodeNotReady(items[i])
         THEN TestStatus(FALSE, "Node " \o items[i].Name \o " is not ready\n", NoErr)
         ELSE CheckNodesFrom(items, i + 1)

CheckNodesVerdict(items, err) ==
    IF err # NoErr
    THEN TestStatus(FALSE, "", err)
    ELSE CheckNodesFrom(items, 1)

CheckNodes ==
    /\ op = "none"
    /\ \E err \in {NoErr} \cup FetchErrors :
       \E items \in (IF err = NoErr THEN NodeListings ELSE {<<>>}) :
          /\ api' = [err |-> err, items |-> items]
          /\ ret' = CheckNodesVerdict(items, err)
    /\ op' = "CheckNodes"
    /\ fetches' = fetches + 1
    /\ UNCHANGED <<proc, execs>>

(***************************************************************************)
(* CheckPods                                                               *)
(***************************************************************************)
PodPhases == {"Running", "Pending", "Succeeded", "Failed"}

PodPhaseListings == SeqsUpTo([Phase : PodPhases], MaxPods)

\* the counting loop of CheckPods: notRunningCount after items[i..]
RECURSIVE NotRunningCount_SucceededExempt(_, _)
NotRunningCount_SucceededExempt(items, i) ==
    IF i > Len(items)
    THEN 0
    ELSE (IF items[i].Phase \notin {"Running", "Succeeded"} THEN 1 ELSE 0)
         + NotRunningCount_SucceededExempt(items, i + 1)

RECURSIVE NotRunningCount(_, _)
NotRunningCount(items, i) ==
    IF i > Len(items)
    THEN 0
    ELSE (IF items[i].Phase # "Running" THEN 1 ELSE 0)
         + NotRunningCount(items, i + 1)

CheckPodsVerdict(items, err) ==
    IF err # NoErr
    THEN TestStatus(FALSE, "", err)
    ELSE LET notRunningCount == NotRunningCount(items, 1)
         IN  IF notRunningCount > 0
             THEN TestStatus(FALSE,
                      ToString(notRunningCount) \o " pods are in not running state\n",
                      NoErr)
             ELSE TestStatus(TRUE, "All pods are running", NoErr)

CheckPods ==
    /\ op = "none"
    /\ \E err \in {NoErr} \cup FetchErrors :
       \E items \in (IF err = NoErr THEN PodPhaseListings ELSE {<<>>}) :
          /\ api' = [err |-> err, items |-> items]
          /\ ret' = CheckPodsVerdict(items, err)
    /\ op' = "CheckPods"
    /\ fetches' = fetches + 1
    /\ UNCHANGED <<proc, execs>>

(***************************************************************************)
(* CheckEvents                                                             *)
(***************************************************************************)
EventTypes == {"Normal", "Warning", "Error"}

EventListings == SeqsUpTo([Type : EventTypes], MaxEvents)

RECURSIVE EventCount(_, _, _)
EventCount(items, type, i) ==
    IF i > Len(items)
    THEN 0
    ELSE (IF items[i].Type = type THEN 1 ELSE 0) + EventCount(items, type, i + 1)

\* a probe that goes on to classify the (empty) listing of a failed fetch
CheckEventsVerdict_ErrIgnored(items, err) ==
    LET warningEventsCount == EventCount(items, "Warning", 1)
        errorEventsCount == EventCount(items, "Error", 1)
    IN  IF warningEventsCount > 0 \/ errorEventsCount > 0
        THEN TestStatus(FALSE,
                 ToString(warningEventsCount) \o " warning events and "
                     \o ToString(errorEventsCount) \o " error events found\n",
                 NoErr)
        ELSE TestStatus(TRUE, "No failed events found", NoErr)

CheckEventsVerdict(items, err) ==
    IF err # NoErr
    THEN TestStatus(FALSE, "", err)
    ELSE LET warningEventsCount == EventCount(items, "Warning", 1)
             errorEventsCount == EventCount(items, "Error", 1)
         IN  IF warningEventsCount > 0 \/ errorEventsCount > 0
             THEN TestStatus(FALSE,
                      ToString(warningEventsCount) \o " warning events and "
                          \o ToString(errorEventsCount) \o " error events found\n",
                      NoErr)
             ELSE TestStatus(TRUE, "No failed events found", NoErr)

CheckEvents ==
    /\ op = "none"
    /\ \E err \in {NoErr} \cup FetchErrors :
       \E items \in (IF err = NoErr THEN EventListings ELSE {<<>>}) :
          /\ api' = [err |-> err, items |-> items]
          /\ ret' = CheckEventsVerdict(items, err)
    /\ op' = "CheckEvents"
    /\ fetches' = fetches + 1
    /\ UNCHANGED <<proc, execs>>

(***************************************************************************)
(* ExecuteRemoteCommand                                                    *)
(***************************************************************************)
\* what one exec round trip meets: the kubeconfig load, the creation of the
\* SPDY executor and the stream each succeed or fail; the stream delivers
\* (possibly partial) output.  With TTY requested the remote side merges its
\* error stream into stdout, so the stderr buffer stays empty.
ExecChannels ==
    {[configErr |-> "invalid configuration", executorErr |-> NoErr,
      streamErr |-> NoErr, stdout |-> "", stderr |-> ""]}
    \cup
    {[configErr |-> NoErr, executorErr |-> "unable to upgrade connection",
      streamErr |-> NoErr, stdout |-> "", stderr |-> ""]}
    \cup
    [configErr : {NoErr}, executorErr : {NoErr},
     streamErr : {NoErr, "stream closed"}, stdout : {"", "OK\n"}, stderr : {""}]

\* panic(err.Error()) on a config error; the executor's error is dropped, so a
\* failed creation leaves exec nil and exec.Stream panics; the stream's error
\* is dropped as well and the returned error is always nil
ExecuteRemoteCommandResult(chan) ==
    IF chan.configErr # NoErr
    THEN [panicked |-> TRUE, streams |-> 0]
    ELSE IF chan.executorErr # NoErr
         THEN [panicked |-> TRUE, streams |-> 0]
         ELSE [panicked |-> FALSE, streams |-> 1,
               stdout |-> chan.stdout, stderr |-> chan.stderr, err |-> NoErr]

ExecuteRemoteCommand ==
    /\ op = "none"
    /\ \E chan \in ExecChannels :
          LET r == ExecuteRemoteCommandResult(chan)
          IN  /\ api' = chan
              /\ proc' = IF r.panicked THEN "panicked" ELSE proc
              /\ ret' = IF r.panicked
                        THEN NoReturn
                        ELSE [returned |-> TRUE, stdout |-> r.stdout,
                              stderr |-> r.stderr, err |-> r.err]
              /\ execs' = execs + r.streams
    /\ op' = "ExecuteRemoteCommand"
    /\ UNCHANGED fetches

(***************************************************************************)
(* FlushRedisData                                                          *)
(***************************************************************************)
\* the loop over the pods of the redis namespace from index i: one remote
\* command per pod, the call returns the first non-nil error
RECURSIVE FlushFrom(_, _, _)
FlushFrom(chans, i, streams) ==
    IF i > Len(chans)
    THEN [panicked |-> FALSE, err |-> NoErr, streams |-> streams]
    ELSE LET r == ExecuteRemoteCommandResult(chans[i])
         IN  IF r.panicked
             THEN [panicked |-> TRUE, streams |-> streams + r.streams]
             ELSE IF r.err # NoErr
                  THEN [panicked |-> FALSE, err |-> r.err,
                        streams |-> streams + r.streams]
                  ELSE FlushFrom(chans, i + 1, streams + r.streams)

\* a failed pod listing returns nil
FlushRedisDataResult(chans, err) ==
    IF err # NoErr
    THEN [panicked |-> FALSE, err |-> NoErr, streams |-> 0]
    ELSE FlushFrom(chans, 1, 0)

FlushRedisData ==
    /\ op = "none"
    /\ \E err \in {NoErr} \cup FetchErrors :
       \E chans \in (IF err = NoErr THEN SeqsUpTo(ExecChannels, MaxRedisPods)
                                    ELSE {<<>>}) :
          LET r == FlushRedisDataResult(chans, err)
          IN  /\ api' = [err |-> err, chans |-> chans]
              /\ proc' = IF r.panicked THEN "panicked" ELSE proc
              /\ ret' = IF r.panicked
                        THEN NoReturn
                        ELSE [returned |-> TRUE, err |-> r.err]
              /\ execs' = execs + r.streams
    /\ op' = "FlushRedisData"
    /\ fetches' = fetches + 1

(***************************************************************************)
(* GetCPUUsagePercentage / GetMemoryUsagePercentage                        *)
(***************************************************************************)
\* a resource.Quantity, held as its number of milli-units (250 is "250m")
QuantityValues == {0, 1, 500, 1000, 4000}

IsZero(q) == q = 0

\* Quantity.MilliValue
MilliValue(q) == q

\* Quantity.Value rounds up to the next whole unit
Value(q) == (q + 999) \div 1000

RECURSIVE GCD(_, _)
GCD(a, b) == IF b = 0 THEN a ELSE GCD(b, a % b)

\* a float64 result as an exact fraction in lowest terms (rounding is left
\* out); den = 0 stands for the results of a float division by zero:
\* num = 0 is NaN, num = 1 is +Inf
Float(n, d) ==
    IF d = 0
    THEN [num |-> IF n = 0 THEN 0 ELSE 1, den |-> 0]
    ELSE [num |-> n \div GCD(n, d), den |-> d \div GCD(n, d)]

GetCPUUsagePercentage_Unguarded(usage, request) ==
    Float(MilliValue(usage) * 100, MilliValue(request))

GetCPUUsagePercentage(usage, request) ==
    IF IsZero(request)
    THEN Float(0, 1)
    ELSE Float(MilliValue(usage) * 100, MilliValue(request))

GetMemoryUsagePercentage(usage, request) ==
    IF IsZero(request)
    THEN Float(0, 1)
    ELSE Float(Value(usage) * 100, Value(request))

CallGetCPUUsagePercentage ==
    /\ op = "none"
    /\ \E usage \in QuantityValues, request \in QuantityValues :
          /\ api' = [usage |-> usage, request |-> request]
          /\ ret' = [returned |-> TRUE, value |-> GetCPUUsagePercentage(usage, request)]
    /\ op' = "GetCPUUsagePercentage"
    /\ UNCHANGED <<proc, fetches, execs>>

CallGetMemoryUsagePercentage ==
    /\ op = "none"
    /\ \E usage \in QuantityValues, request \in QuantityValues :
          /\ api' = [usage |-> usage, request |-> request]
          /\ ret' = [returned |-> TRUE, value |-> GetMemoryUsagePercentage(usage, request)]
    /\ op' = "GetMemoryUsagePercentage"
    /\ UNCHANGED <<proc, fetches, execs>>

(***************************************************************************)
(* GetRedisStatus                                                          *)
(***************************************************************************)
RedisPodNames == <<"rediscluster-0", "rediscluster-1", "rediscluster-2",
                   "rediscluster-3", "rediscluster-4">>

Zones == {"zone-a", "zone-b"}

\* Cluster.Nodes of a report: the i-th node runs in pod RedisPodNames[i]
RedisNodeLists ==
    UNION { { [i \in 1..k |-> [PodName |-> RedisPodNames[i], Zone |-> z[i]]]
              : z \in [1..k -> Zones] }
            : k \in 0..MaxRedisNodes }

\* the typed ClusterStatus a well-shaped status document decodes to
ClusterReports ==
    [Nodes : RedisNodeLists,
     NumberOfPods : {MaxRedisNodes},
     NumberOfPodsReady : {MaxRedisNodes - 1, MaxRedisNodes},
     NumberOfPrimaries : {1},
     MaxReplicationFactor : {1},
     Status : {"OK", "Scaling"}]

\* the custom resource as fetched: its `status` field is missing, is not a
\* mapping, is a mapping that does not fit ClusterStatus, or fits it
CustomResources ==
    {[status |-> "missing"], [status |-> "notmap"], [status |-> "mismatch"]}
    \cup {[status |-> "report", cluster |-> c] : c \in ClusterReports}

\* the v1.Pod a Pods(ns).Get hands back: the live pod when it exists, an
\* empty Pod value together with a non-nil error when it does not
LivePod == [NodeName |-> "worker-1",
            Containers |-> <<[cpu |-> "500m", memory |-> "1Gi"]>>]

EmptyPod == [NodeName |-> "", Containers |-> <<>>]

GetPod(found) == IF found THEN LivePod ELSE EmptyPod

\* the NumberActiveZones closure: len of the map keyed by node.Zone
NumberActiveZones_PerNode(nodes) == Len(nodes)

NumberActiveZones(nodes) == Cardinality({nodes[i].Zone : i \in DOMAIN nodes})

\* the PodDetails closure from node i on, podDetails being the map so far:
\* the error of a failed Get is printed, then the pod is read regardless and
\* pod.Spec.Containers[0] of the empty Pod panics (index out of range)
RECURSIVE PodDetailsFrom(_, _, _, _)
PodDetailsFrom(nodeList, found, i, podDetails) ==
    IF i > Len(nodeList)
    THEN [panicked |-> FALSE, gets |-> i - 1, podDetails |-> podDetails]
    ELSE LET pod == GetPod(found[i])
         IN  IF Len(pod.Containers) = 0
             THEN [panicked |-> TRUE, gets |-> i]
             ELSE LET nodeDetails == [Worker |-> pod.NodeName,
                                      CPU |-> pod.Containers[1].cpu,
                                      Memory |-> pod.Containers[1].memory]
                      name == nodeList[i].PodName
                  IN  PodDetailsFrom(nodeList, found, i + 1,
                          [n \in DOMAIN podDetails \cup {name} |->
                              IF n = name THEN nodeDetails ELSE podDetails[n]])

\* RedisStatus{}
ZeroRedisStatus ==
    [PrimariesConfigured |-> 0, ReplicasConfigured |-> 0, PodStatus |-> FALSE,
     ClusterState |-> FALSE, ClusterSlotsOk |-> 0, ClusterKnownNodes |-> 0,
     ClusterSize |-> 0, ClusterSlotsPfail |-> 0, ClusterSlotsFail |-> 0,
     NumberActiveZones |-> 0, RedisNodeDetails |-> <<>>,
     NumberZonesPrimaries |-> 0, NumberPrimariesInZone |-> 0,
     PodDetails |-> <<>>]

\* outcome of GetRedisStatus: "returned" with the RedisStatus, "exited"
\* (log.Fatalf) or "panicked"
GetRedisStatusResult(err, cr, found) ==
    IF err # NoErr
    THEN [outcome |-> "returned", gets |-> 0, status |-> ZeroRedisStatus]
    ELSE IF cr.status \in {"missing", "notmap"}
    THEN [outcome |-> "exited", gets |-> 0]
    ELSE IF cr.status = "mismatch"
    THEN [outcome |-> "exited", gets |-> 0]
    ELSE LET c == cr.cluster
             zones == NumberActiveZones(c.Nodes)
             details == PodDetailsFrom(c.Nodes, found, 1, <<>>)
         IN  IF details.panicked
             THEN [outcome |-> "panicked", gets |-> details.gets]
             ELSE [outcome |-> "returned", gets |-> details.gets,
                   status |->
                     [PrimariesConfigured |-> c.NumberOfPrimaries,
                      ReplicasConfigured |-> c.MaxReplicationFactor,
                      PodStatus |-> (c.NumberOfPods = c.NumberOfPodsReady),
                      ClusterState |-> (c.Status = "OK"),
                      ClusterSlotsOk |-> Len(c.Nodes),
                      ClusterKnownNodes |-> Len(c.Nodes),
                      ClusterSize |-> c.NumberOfPods,
                      ClusterSlotsPfail |-> 0,
                      ClusterSlotsFail |-> 0,
                      NumberActiveZones |-> zones,
                      RedisNodeDetails |-> c.Nodes,
                      NumberZonesPrimaries |-> 1,
                      NumberPrimariesInZone |-> c.NumberOfPrimaries,
                      PodDetails |-> details.podDetails]]

GetRedisStatus ==
    /\ op = "none"
    /\ \E err \in {NoErr} \cup FetchErrors :
       \E cr \in (IF err = NoErr THEN CustomResources ELSE {[status |-> "missing"]}) :
       \E found \in (IF err = NoErr /\ cr.status = "report"
                     THEN [DOMAIN cr.cluster.Nodes -> BOOLEAN]
                     ELSE {<<>>}) :
          LET r == GetRedisStatusResult(err, cr, found)
          IN  /\ api' = [err |-> err, customResource |-> cr, found |-> found]
              /\ proc' = IF r.outcome = "returned" THEN proc ELSE r.outcome
              /\ ret' = IF r.outcome = "returned"
                        THEN [returned |-> TRUE, status |-> r.status]
                        ELSE NoReturn
              /\ fetches' = fetches + 1 + r.gets
    /\ op' = "GetRedisStatus"
    /\ UNCHANGED execs

(***************************************************************************)
(* GetResourceUsageReport                                                  *)
(***************************************************************************)
\* namespace and name of the pods of the cluster; two namespaces share a name
PodIds == {[Namespace |-> "X", Name |-> "Y"],
           [Namespace |-> "X", Name |-> "Z"],
           [Namespace |-> "W", Name |-> "Y"]}

\* Spec.Containers of a pod, with the cpu and memory requests
PodContainerLists ==
    { <<[Name |-> "app", cpu |-> 500, memory |-> 1000]>>,
      <<[Name |-> "app", cpu |-> 0, memory |-> 0],
        [Name |-> "sidecar", cpu |-> 1000, memory |-> 4000]>> }

\* Containers of a PodMetrics, with the cpu and memory in use
MetricsContainerLists ==
    { <<[Name |-> "app", cpu |-> 500, memory |-> 500]>>,
      <<[Name |-> "sidecar", cpu |-> 1, memory |-> 1000],
        [Name |-> "app", cpu |-> 1000, memory |-> 4000]>> }

\* listings as the API server returns them: no two items share namespace/name
Listings(containerLists, max) ==
    UNION { { [i \in DOMAIN ids |->
                 [Namespace |-> ids[i].Namespace, Name |-> ids[i].Name,
                  Containers |-> cs[i]]]
              : cs \in [DOMAIN ids -> containerLists] }
            : ids \in {s \in InjectiveSeqs(PodIds) : Len(s) <= max} }

PodListings == Listings(PodContainerLists, MaxUsagePods)

PodMetricsListings == Listings(MetricsContainerLists, MaxMetrics)

\* fmt.Sprintf("%s/%s", namespace, name)
PodKey_NameOnly(namespace, name) == name

PodKey(namespace, name) == namespace \o "/" \o name

\* podMetricsMap after the items from index i on were stored, m being the map
\* so far: a later item with the same key replaces the earlier one
RECURSIVE PodMetricsMap(_, _, _)
PodMetricsMap(items, i, m) ==
    IF i > Len(items)
    THEN m
    ELSE LET key == PodKey(items[i].Namespace, items[i].Name)
         IN  PodMetricsMap(items, i + 1,
                 [k \in DOMAIN m \cup {key} |-> IF k = key THEN items[i] ELSE m[k]])

\* the inner loop over podMetrics.Containers from index j on for one container
RECURSIVE MatchMetrics(_, _, _)
MatchMetrics(container, metricsContainers, j) ==
    IF j > Len(metricsContainers)
    THEN <<>>
    ELSE (IF container.Name = metricsContainers[j].Name
          THEN <<[Name |-> container.Name,
                  CPUUsage |-> GetCPUUsagePercentage(metricsContainers[j].cpu,
                                                     container.cpu),
                  MemoryUsage |-> GetMemoryUsagePercentage(metricsContainers[j].memory,
                                                           container.memory)]>>
          ELSE <<>>)
         \o MatchMetrics(container, metricsContainers, j + 1)

\* the loop over pod.Spec.Containers from index i on
RECURSIVE ContainerUsages(_, _, _)
ContainerUsages(containers, metricsContainers, i) ==
    IF i > Len(containers)
    THEN <<>>
    ELSE MatchMetrics(containers[i], metricsContainers, 1)
         \o ContainerUsages(containers, metricsContainers, i + 1)

\* the body of the loop over pods.Items for one pod
PodUsageOf(pod, podMetricsMap) ==
    LET podKey == PodKey(pod.Namespace, pod.Name)
    IN  [PodName |-> pod.Name,
         Namespace |-> pod.Namespace,
         ContainerUsages |->
             IF podKey \in DOMAIN podMetricsMap
             THEN ContainerUsages(pod.Containers, podMetricsMap[podKey].Containers, 1)
             ELSE <<>>]

\* a loop that appends a PodUsage only for the pods that have metrics
RECURSIVE PodsUsage_MetricsOnly(_, _, _)
PodsUsage_MetricsOnly(pods, podMetricsMap, i) ==
    IF i > Len(pods)
    THEN <<>>
    ELSE (IF PodKey(pods[i].Namespace, pods[i].Name) \in DOMAIN podMetricsMap
          THEN <<PodUsageOf(pods[i], podMetricsMap)>>
          ELSE <<>>)
         \o PodsUsage_MetricsOnly(pods, podMetricsMap, i + 1)

\* the loop over pods.Items from index i on: report.PodsUsage
RECURSIVE PodsUsage(_, _, _)
PodsUsage(pods, podMetricsMap, i) ==
    IF i > Len(pods)
    THEN <<>>
    ELSE <<PodUsageOf(pods[i], podMetricsMap)>>
         \o PodsUsage(pods, podMetricsMap, i + 1)

\* the join of a pod listing with a metrics snapshot
ResourceUsageReport(pods, podMetricsList) ==
    [PodsUsage |-> PodsUsage(pods, PodMetricsMap(podMetricsList, 1, <<>>), 1)]

\* log.Fatalf when either listing cannot be fetched
GetResourceUsageReport ==
    /\ op = "none"
    /\ \E podsErr \in {NoErr} \cup FetchErrors :
       \E metricsErr \in (IF podsErr = NoErr THEN {NoErr} \cup FetchErrors ELSE {NoErr}) :
       \E pods \in (IF podsErr = NoErr THEN PodListings ELSE {<<>>}) :
       \E podMetricsList \in (IF podsErr = NoErr /\ metricsErr = NoErr
                              THEN PodMetricsListings ELSE {<<>>}) :
          /\ api' = [podsErr |-> podsErr, metricsErr |-> metricsErr,
                     pods |-> pods, podMetricsList |-> podMetricsList]
          /\ proc' = IF podsErr # NoErr \/ metricsErr # NoErr THEN "exited" ELSE proc
          /\ ret' = IF podsErr # NoErr \/ metricsErr # NoErr
                    THEN NoReturn
                    ELSE [returned |-> TRUE,
                          report |-> ResourceUsageReport(pods, podMetricsList)]
          /\ fetches' = fetches + (IF podsErr = NoErr THEN 2 ELSE 1)
    /\ op' = "GetResourceUsageReport"
    /\ UNCHANGED execs

(***************************************************************************)
(* Alert / origAlert / GetAlerts                                           *)
(***************************************************************************)
\* a JSON value met where origAlert wants a string: a string or a number
JSONString(str) == [type |-> "string", s |-> str]

JSONNumber == [type |-> "number"]

\* the `labels` objects of the source records
RawLabels ==
    { <<>>,
      [k \in {"alertname", "severity", "pod"} |->
          JSONString(CASE k = "alertname" -> "A"
                       [] k = "severity" -> "critical"
                       [] k = "pod" -> "p1")],
      [k \in {"alertname", "job"} |->
          JSONString(IF k = "alertname" THEN "B" ELSE "node-exporter")],
      [k \in {"alertname", "severity"} |->
          IF k = "alertname" THEN JSONString("C") ELSE JSONNumber] }

\* the `annotations` objects of the source records
RawAnnotations ==
    { [k \in {"summary"} |-> JSONString("S")],
      [k \in {"description"} |-> JSONString("D")] }

\* the source records of amtool's output; startsAt is a string, is a number
\* or is missing
RawAlerts ==
    [labels : RawLabels,
     annotations : RawAnnotations,
     startsAt : {JSONString("t1"), JSONNumber, [type |-> "missing"]},
     endsAt : {JSONString("t2")}]

\* the captured stdout, by what a JSON parser makes of it: not valid JSON
\* (an empty or cut-off output included), valid JSON that is no array, or an
\* array of records
AlertDocuments ==
    {[kind |-> "malformed"], [kind |-> "notarray"]}
    \cup {[kind |-> "array", records |-> r] : r \in SeqsUpTo(RawAlerts, MaxAlerts)}

\* decoding of a JSON object into map[string]string: a value that is no
\* string is a type error and leaves the zero value under its key
DecodeStringMap(raw) ==
    [k \in DOMAIN raw |-> IF raw[k].type = "string" THEN raw[k].s ELSE ""]

StringMapMismatch(raw) == \E k \in DOMAIN raw : raw[k].type # "string"

\* decoding of one array element into origAlert: a field of the wrong type is
\* skipped (it keeps its zero value) and decoding goes on
DecodeOrigAlert(raw) ==
    [Labels |-> DecodeStringMap(raw.labels),
     Annotations |-> DecodeStringMap(raw.annotations),
     StartsAt |-> IF raw.startsAt.type = "string" THEN raw.startsAt.s ELSE "",
     EndsAt |-> IF raw.endsAt.type = "string" THEN raw.endsAt.s ELSE ""]

OrigAlertMismatch(raw) ==
    \/ StringMapMismatch(raw.labels)
    \/ StringMapMismatch(raw.annotations)
    \/ raw.startsAt.type = "number"
    \/ raw.endsAt.type = "number"

\* json.Unmarshal([]byte(stdout), &origAlerts), origAlerts being empty before:
\* invalid JSON is rejected before anything is stored; a type mismatch is
\* remembered, the rest is decoded as well as possible and the first
\* mismatch is returned as the error
Unmarshal(doc) ==
    IF doc.kind = "malformed"
    THEN [err |-> "SyntaxError", origAlerts |-> <<>>]
    ELSE IF doc.kind = "notarray"
    THEN [err |-> "UnmarshalTypeError", origAlerts |-> <<>>]
    ELSE [err |-> IF \E i \in DOMAIN doc.records : OrigAlertMismatch(doc.records[i])
                  THEN "UnmarshalTypeError"
                  ELSE NoErr,
          origAlerts |-> [i \in DOMAIN doc.records |-> DecodeOrigAlert(doc.records[i])]]

\* alert.Labels["alertname"]: the zero value for a missing key
MapIndex(m, key) == IF key \in DOMAIN m THEN m[key] ELSE ""

\* the Alert appended for one origAlert
FlattenAlert_SummaryFromLabels(alert) ==
    [AlertName |-> MapIndex(alert.Labels, "alertname"),
     Severity |-> MapIndex(alert.Labels, "severity"),
     StartsAt |-> alert.StartsAt,
     PodName |-> MapIndex(alert.Labels, "pod"),
     Summary |-> MapIndex(alert.Labels, "summary")]

FlattenAlert(alert) ==
    [AlertName |-> MapIndex(alert.Labels, "alertname"),
     Severity |-> MapIndex(alert.Labels, "severity"),
     StartsAt |-> alert.StartsAt,
     PodName |-> MapIndex(alert.Labels, "pod"),
     Summary |-> MapIndex(alert.Annotations, "summary")]

\* the loop over origAlerts from index i on
RECURSIVE AlertList(_, _)
AlertList(origAlerts, i) ==
    IF i > Len(origAlerts)
    THEN <<>>
    ELSE <<FlattenAlert(origAlerts[i])>> \o AlertList(origAlerts, i + 1)

\* GetAlerts for the answer chan of the exec channel, chan.stdout being the
\* document: the errors of the remote command and of the decoding are
\* printed only, the loop runs over whatever origAlerts holds
GetAlertsResult(chan) ==
    LET r == ExecuteRemoteCommandResult(chan)
    IN  IF r.panicked
        THEN [panicked |-> TRUE, streams |-> r.streams]
        ELSE LET decoded == Unmarshal(r.stdout)
             IN  [panicked |-> FALSE, streams |-> r.streams,
                  decodeErr |-> decoded.err,
                  alertList |-> AlertList(decoded.origAlerts, 1)]

GetAlerts ==
    /\ op = "none"
    /\ \E c \in {x \in ExecChannels : x.stdout = ""} :
       \E doc \in (IF c.configErr = NoErr /\ c.executorErr = NoErr
                   THEN AlertDocuments
                   ELSE {[kind |-> "malformed"]}) :
          LET chan == [c EXCEPT !.stdout = doc]
              r == GetAlertsResult(chan)
          IN  /\ api' = chan
              /\ proc' = IF r.panicked THEN "panicked" ELSE proc
              /\ ret' = IF r.panicked
                        THEN NoReturn
                        ELSE [returned |-> TRUE, alertList |-> r.alertList]
              /\ execs' = execs + r.streams
    /\ op' = "GetAlerts"
    /\ UNCHANGED fetches

Init ==
    /\ op = "none"
    /\ proc = "running"
    /\ api = [err |-> NoErr]
    /\ ret = NoReturn
    /\ fetches = 0
    /\ execs = 0

Next ==
    \/ CheckNodes
    \/ CheckPods
    \/ CheckEvents
    \/ ExecuteRemoteCommand
    \/ FlushRedisData
    \/ CallGetCPUUsagePercentage
    \/ CallGetMemoryUsagePercentage
    \/ GetRedisStatus
    \/ GetResourceUsageReport
    \/ GetAlerts

Spec == Init /\ [][Next]_vars

(***************************************************************************)
(* Claims.                                                                 *)
(***************************************************************************)
Probes == {"CheckNodes", "CheckPods", "CheckEvents"}

\* C1: for every node listing fetched successfully, CheckNodes returns
\* Status = TRUE if and only if no node has a condition of type "Ready" whose
\* status is other than "True" (a node without a "Ready" condition does not
\* fail the probe); when it passes, Info is exactly "All nodes are ready".
C1_NodesReadyIff ==
    (op = "CheckNodes" /\ api.err = NoErr) =>
        /\ ret.Status =
              (\A n \in Range(api.items) : \A c \in Range(n.Conditions) :
                   c.Type = "Ready" => c.Status = "True")
        /\ ret.Status => ret.Info = "All nodes are ready"
        /\ ret.Error = NoErr

\* a listing passes although one node has no "Ready" condition and another
\* carries a non-Ready condition whose status is not "True"
C1_Witness ==
    /\ op = "CheckNodes" /\ api.err = NoErr
    /\ Len(api.items) = MaxNodes
    /\ \E n \in Range(api.items) : n.Conditions = <<>>
    /\ \E n \in Range(api.items) : \E c \in Range(n.Conditions) :
           c.Type = "MemoryPressure" /\ c.Status = "False"
    /\ ret.Status /\ ret.Info = "All nodes are ready"

\* C2: for every pod listing fetched successfully, the failure count of
\* CheckPods is the number of pods whose phase is not exactly "Running"
\* ("Succeeded" is counted); Status is TRUE exactly when the count is zero,
\* otherwise Status is FALSE and Info carries the count.
C2_PodsCount ==
    (op = "CheckPods" /\ api.err = NoErr) =>
        LET n == Cardinality({i \in DOMAIN api.items : api.items[i].Phase # "Running"})
        IN  /\ ret.Status = (n = 0)
            /\ ret.Error = NoErr
            /\ n > 0 => ret.Info = ToString(n) \o " pods are in not running state\n"
            /\ n = 0 => ret.Info = "All pods are running"

\* a listing with a "Succeeded" pod and a "Pending" pod fails with count 2
C2_Witness ==
    /\ op = "CheckPods" /\ api.err = NoErr
    /\ \E i \in DOMAIN api.items : api.items[i].Phase = "Succeeded"
    /\ \E i \in DOMAIN api.items : api.items[i].Phase = "Pending"
    /\ \E i \in DOMAIN api.items : api.items[i].Phase = "Running"
    /\ ~ret.Status
    /\ ret.Info = "2 pods are in not running state\n"

\* C3: when the listing fetch of a health probe fails, the probe still
\* returns a verdict, with Status = FALSE, Info empty and Error the fetch
\* error; the fetch is sent once (no retry) and the process keeps running.
C3_FetchFailureVerdict ==
    (op \in Probes /\ api.err # NoErr) =>
        /\ ret = TestStatus(FALSE, "", api.err)
        /\ fetches = 1
        /\ proc = "running"

C3_Witness ==
    /\ op = "CheckEvents"
    /\ api.err \in FetchErrors
    /\ ret.Error = api.err
    /\ fetches = 1

\* C4: for GetCPUUsagePercentage and GetMemoryUsagePercentage, whenever the
\* request quantity is zero the result is exactly 0 for every used quantity;
\* no division by zero happens (the result is neither NaN nor infinite).
C4_ZeroRequestZeroPercent ==
    (op \in {"GetCPUUsagePercentage", "GetMemoryUsagePercentage"} /\ api.request = 0) =>
        /\ ret.value.den # 0
        /\ ret.value.num = 0

C4_Witness ==
    /\ op = "GetCPUUsagePercentage"
    /\ api.request = 0 /\ api.usage > 0
    /\ ret.value = [num |-> 0, den |-> 1]

\* C7 (as claimed): ExecuteRemoteCommand opens the exec channel at most once
\* and, when creating the executor or streaming fails, returns that failure
\* to the caller as the call's error value.
C7_ExecFailureReturned ==
    (op = "ExecuteRemoteCommand" /\ api.configErr = NoErr) =>
        /\ execs <= 1
        /\ (api.executorErr # NoErr \/ api.streamErr # NoErr) =>
              /\ proc = "running"
              /\ ret.returned
              /\ ret.err # NoErr

Decoded == op = "GetRedisStatus" /\ api.err = NoErr /\ api.customResource.status = "report"

\* C5 (as claimed): a custom resource whose `status` field is missing or is
\* not a mapping makes GetRedisStatus hand an error outcome to its caller;
\* the host process is not terminated.
C5_MissingStatusRecoverable ==
    (/\ op = "GetRedisStatus"
     /\ api.err = NoErr
     /\ api.customResource.status \in {"missing", "notmap"}) =>
        /\ proc = "running"
        /\ ret.returned

\* C6 (as claimed): when the pod lookup of a node fails, that node's entry
\* of PodDetails keeps zero-value Worker/CPU/Memory, the remaining lookups
\* are still performed and the call completes with an entry for every node.
C6_BestEffortEnrichment ==
    Decoded =>
        LET nodes == api.customResource.cluster.Nodes
        IN  /\ proc = "running"
            /\ ret.returned
            /\ fetches = 1 + Len(nodes)
            /\ \A i \in DOMAIN nodes :
                  /\ nodes[i].PodName \in DOMAIN ret.status.PodDetails
                  /\ ~api.found[i] =>
                        ret.status.PodDetails[nodes[i].PodName]
                            = [Worker |-> "", CPU |-> "", Memory |-> ""]

\* C8: for every decoded cluster report for which GetRedisStatus returns a
\* status, NumberActiveZones is the number of distinct zone values across
\* the nodes of the report: 0 for an empty node list, 1 when all nodes share
\* one zone, never more than the number of nodes.
C8_ActiveZones ==
    (Decoded /\ ret.returned) =>
        LET nodes == api.customResource.cluster.Nodes
            n == ret.status.NumberActiveZones
        IN  /\ \E Z \in SUBSET Zones :
                  /\ Cardinality(Z) = n
                  /\ \A i \in DOMAIN nodes : nodes[i].Zone \in Z
                  /\ \A z \in Z : \E i \in DOMAIN nodes : nodes[i].Zone = z
            /\ nodes = <<>> => n = 0
            /\ (nodes # <<>> /\ \A i, j \in DOMAIN nodes : nodes[i].Zone = nodes[j].Zone)
                  => n = 1
            /\ n <= Len(nodes)

\* a report whose nodes outnumber their zones
C8_Witness ==
    /\ Decoded /\ ret.returned
    /\ Len(api.customResource.cluster.Nodes) = MaxRedisNodes
    /\ \E i, j \in DOMAIN api.customResource.cluster.Nodes :
          api.customResource.cluster.Nodes[i].Zone # api.customResource.cluster.Nodes[j].Zone
    /\ ret.status.NumberActiveZones < Len(api.customResource.cluster.Nodes)

Joined == op = "GetResourceUsageReport" /\ api.podsErr = NoErr /\ api.metricsErr = NoErr

HasMetrics(pod, podMetricsList) ==
    \E i \in DOMAIN podMetricsList :
        /\ podMetricsList[i].Namespace = pod.Namespace
        /\ podMetricsList[i].Name = pod.Name

\* C9: in GetResourceUsageReport every pod of the listing yields exactly one
\* PodUsage carrying that pod's name and namespace; a pod with no entry under
\* its namespace/name in the metrics snapshot yields a PodUsage with an empty
\* ContainerUsages list, and the call returns normally.
C9_OnePodUsagePerPod ==
    Joined =>
        /\ proc = "running"
        /\ ret.returned
        /\ Len(ret.report.PodsUsage) = Len(api.pods)
        /\ \A i \in DOMAIN api.pods :
              /\ ret.report.PodsUsage[i].PodName = api.pods[i].Name
              /\ ret.report.PodsUsage[i].Namespace = api.pods[i].Namespace
              /\ ~HasMetrics(api.pods[i], api.podMetricsList)
                    => ret.report.PodsUsage[i].ContainerUsages = <<>>

\* pod X/Y has no metrics entry while W/Y, of the same name, has one
C9_Witness ==
    /\ Joined
    /\ \E i \in DOMAIN api.pods :
          /\ api.pods[i].Namespace = "X" /\ api.pods[i].Name = "Y"
          /\ ~HasMetrics(api.pods[i], api.podMetricsList)
          /\ ret.report.PodsUsage[i]
                = [PodName |-> "Y", Namespace |-> "X", ContainerUsages |-> <<>>]
    /\ \E i \in DOMAIN api.podMetricsList :
          api.podMetricsList[i].Namespace = "W" /\ api.podMetricsList[i].Name = "Y"

Permuted(s) == {[i \in DOMAIN s |-> s[f[i]]] : f \in Permutations(DOMAIN s)}

\* C10: the join is independent of input ordering: for every permutation of
\* the pod listing and every permutation of the metrics snapshot items, the
\* set of per-pod usage records (namespace, name, container usages) is the
\* set the call returned.
C10_JoinOrderIndependent ==
    Joined =>
        \A p \in Permuted(api.pods), m \in Permuted(api.podMetricsList) :
            Range(ResourceUsageReport(p, m).PodsUsage) = Range(ret.report.PodsUsage)

\* both listings have several items and some pod found its metrics
C10_Witness ==
    /\ Joined
    /\ Len(api.pods) = MaxUsagePods
    /\ Len(api.podMetricsList) = MaxMetrics
    /\ \E i \in DOMAIN ret.report.PodsUsage :
          Len(ret.report.PodsUsage[i].ContainerUsages) > 1
    /\ \E i \in DOMAIN ret.report.PodsUsage :
          ret.report.PodsUsage[i].ContainerUsages = <<>>

\* stdout was captured and handed to the decoder
AlertsDecoded ==
    op = "GetAlerts" /\ api.configErr = NoErr /\ api.executorErr = NoErr

\* a string-valued JSON field of a source record, "" when it is missing
RawField(obj, key) ==
    IF key \in DOMAIN obj /\ obj[key].type = "string" THEN obj[key].s ELSE ""

\* the decoder reports a failure for the document
DecodeFails(doc) ==
    \/ doc.kind # "array"
    \/ \E i \in DOMAIN doc.records :
          \/ doc.records[i].startsAt.type = "number"
          \/ \E k \in DOMAIN doc.records[i].labels :
                doc.records[i].labels[k].type = "number"
          \/ \E k \in DOMAIN doc.records[i].annotations :
                doc.records[i].annotations[k].type = "number"

\* C11 (as claimed): whenever decoding the captured stdout as a JSON array of
\* alert records reports a failure (malformed JSON, or a record whose shape
\* does not match), GetAlerts returns an empty alert list and no error
\* reaches the caller.
C11_DecodeFailureEmptyList ==
    (AlertsDecoded /\ DecodeFails(api.stdout)) =>
        /\ proc = "running"
        /\ ret.returned
        /\ ret.alertList = <<>>

\* C12: when stdout decodes without error, GetAlerts returns exactly one
\* Alert per source record, in source order, with AlertName, Severity and
\* PodName from labels "alertname", "severity" and "pod", Summary from
\* annotation "summary" and StartsAt from startsAt; a missing key gives the
\* empty string; nothing else of the record is kept.
C12_AlertsFlattened ==
    (AlertsDecoded /\ ~DecodeFails(api.stdout)) =>
        LET records == api.stdout.records
        IN  /\ proc = "running"
            /\ ret.returned
            /\ Len(ret.alertList) = Len(records)
            /\ \A i \in DOMAIN records :
                  /\ DOMAIN ret.alertList[i]
                        = {"AlertName", "Severity", "StartsAt", "PodName", "Summary"}
                  /\ ret.alertList[i].AlertName = RawField(records[i].labels, "alertname")
                  /\ ret.alertList[i].Severity = RawField(records[i].labels, "severity")
                  /\ ret.alertList[i].PodName = RawField(records[i].labels, "pod")
                  /\ ret.alertList[i].Summary = RawField(records[i].annotations, "summary")
                  /\ ret.alertList[i].StartsAt =
                        (IF records[i].startsAt.type = "string"
                         THEN records[i].startsAt.s ELSE "")

\* the record of the end-to-end scenario, followed by a record that lacks
\* severity, pod, summary and startsAt and carries another label
C12_Witness ==
    /\ AlertsDecoded /\ ~DecodeFails(api.stdout)
    /\ Len(api.stdout.records) = MaxAlerts
    /\ "job" \in DOMAIN api.stdout.records[MaxAlerts].labels
    /\ ret.alertList[1] = [AlertName |-> "A", Severity |-> "critical",
                           StartsAt |-> "t1", PodName |-> "p1", Summary |-> "S"]
    /\ ret.alertList[MaxAlerts].AlertName = "B"
    /\ ret.alertList[MaxAlerts].Severity = ""
    /\ ret.alertList[MaxAlerts].Summary = ""
    /\ ret.alertList[MaxAlerts].StartsAt = ""
====
